---- MODULE Spec2Model ----
(***************************************************************************)
(* Model of Backend/app.py: the FastAPI handlers of the Event Intelligence *)
(* Platform.  The server is one uvicorn event loop (app.py:572); every     *)
(* handler is an `async def` without a single `await`, so a handler holds  *)
(* the loop's thread from its first line to its return, its time.sleep     *)
(* calls included.                                                         *)
(*                                                                         *)
(* Python strings that the handlers inspect or build (usernames, links,    *)
(* tweet ids, messages, composed texts) are sequences of one-character     *)
(* strings.  Fixed error texts that are only copied are TLA+ strings.      *)
(* A dict is a function whose DOMAIN is its set of keys.                   *)
(*                                                                         *)
(* Input domain: attendee dicts whose 'username' and 'post_link', when     *)
(* present, are strings (spec section 3, AttendeeActionTarget).            *)
(***************************************************************************)
EXTENDS Integers, Sequences, FiniteSets, TLC

VARIABLES
    inbox,       \* requests accepted by the server and not yet dispatched
    cur,         \* the request whose handler holds the event loop thread (or held it last)
    client,      \* the TwitterClient() the current handler constructed
    pc,          \* position of the current handler: "idle", "loop", "sleep", "done"
    idx,         \* 1-based position of the for loop in request.attendees
    results,     \* the handler's local list `results`
    successful,  \* the handler's local counter successful_retweets / _likes / _posts / _quotes
    calls,       \* history: the external calls the current handler made, in order
    delays,      \* history: time.sleep charged after each processed attendee (0 when none)
    timer,       \* time units left of the time.sleep in progress
    response     \* what the current handler returned

vars == <<inbox, cur, client, pc, idx, results, successful, calls, delays, timer, response>>

(***************************************************************************)
(* Bounds of the model.                                                    *)
(***************************************************************************)
MaxBatch == 3      \* longest attendees list of a batch request
MaxName == 2       \* longest username of the text-composition requests
MaxOver == 3       \* how far max_results ranges outside [1, 100]
MaxFound == 1      \* most records a discovery engine returns
MaxInbox == 1      \* requests that may wait while a handler runs (SpecLoop)

(***************************************************************************)
(* Strings.                                                                *)
(***************************************************************************)
Digits == {"0", "1", "2", "3", "4", "5", "6", "7", "8", "9"}

Letters == {"a", "b", "c", "d", "e", "f", "g", "h", "i", "j", "k", "l", "m",
            "n", "o", "p", "q", "r", "s", "t", "u", "v", "w", "x", "y", "z"}

\* \d of Python's re on these strings
IsDigit(c) == c \in Digits

\* the literal `lit` occurs in s at position i
LitAt(s, i, lit) ==
    /\ i >= 1
    /\ i + Len(lit) - 1 <= Len(s)
    /\ SubSeq(s, i, i + Len(lit) - 1) = lit

\* last position of the longest run of characters satisfying Cls that starts at i
\* (i - 1 when s[i] is not in the class): a greedy `Cls*`
RECURSIVE RunEnd(_, _, _)
RunEnd(s, i, cls) ==
    IF i <= Len(s) /\ s[i] \in cls THEN RunEnd(s, i + 1, cls) ELSE i - 1

\* \w of Python's re on these strings
WordChars == Letters \cup Digits \cup {"_"}

Min(S) == CHOOSE x \in S : \A y \in S : x <= y

None == <<"None">>

(***************************************************************************)
(* extract_tweet_id (app.py:550-567).                                      *)
(***************************************************************************)
LitStatus == <<"s", "t", "a", "t", "u", "s", "/">>
LitSlashStatus == <<"/", "s", "t", "a", "t", "u", "s", "/">>
LitTwitter == <<"t", "w", "i", "t", "t", "e", "r", ".", "c", "o", "m", "/">>
LitTwitterStatus == <<"t", "w", "i", "t", "t", "e", "r", ".", "c", "o", "m", "/", "s", "t", "a", "t", "u", "s", "/">>
LitX == <<"x", ".", "c", "o", "m", "/">>

\* One pattern of app.py:553-558 tried at position i of s: the position where
\* the group (\d+) starts, or 0 when the pattern does not match at i.  A
\* pattern is a literal prefix, optionally followed by \w+/status/, followed
\* by the group.  "/" is no \w character, so the greedy \w+ can only be
\* followed by "/status/" at the end of its whole run.
MatchAt(s, i, pre, word) ==
    IF ~LitAt(s, i, pre) THEN 0
    ELSE LET a == i + Len(pre)
             e == RunEnd(s, a, WordChars)
             g == IF word THEN e + 1 + Len(LitSlashStatus) ELSE a
         IN  IF /\ word => (e >= a /\ LitAt(s, e + 1, LitSlashStatus))
                /\ g <= Len(s)
                /\ IsDigit(s[g])
             THEN g ELSE 0

\* re.search(pattern, s): the leftmost match; match.group(1) is the greedy
\* run of digits.  None when there is no match.
ReSearch(s, pre, word) ==
    LET at == {i \in 1..Len(s) : MatchAt(s, i, pre, word) # 0}
    IN  IF at = {} THEN None
        ELSE LET g == MatchAt(s, Min(at), pre, word)
             IN  SubSeq(s, g, RunEnd(s, g, Digits))

\* the list `patterns`, in its order
patterns == << [pre |-> LitStatus, word |-> FALSE],
               [pre |-> LitTwitter, word |-> TRUE],
               [pre |-> LitTwitterStatus, word |-> FALSE],
               [pre |-> LitX, word |-> TRUE] >>

\* the for loop over patterns, from pattern k on: the first match wins
RECURSIVE FirstMatch(_, _)
FirstMatch(s, k) ==
    IF k > Len(patterns) THEN None
    ELSE LET m == ReSearch(s, patterns[k].pre, patterns[k].word)
         IN  IF m # None THEN m ELSE FirstMatch(s, k + 1)

extract_tweet_id(post_link) == FirstMatch(post_link, 1)

\* Python truthiness of an Optional[str]
Falsy(v) == v = None \/ v = <<>>

\* dict.get(key, default)
DictGet(d, key, default) == IF key \in DOMAIN d THEN d[key] ELSE default

(***************************************************************************)
(* Requests.                                                               *)
(***************************************************************************)
Absent == <<"absent">>    \* marks a key an attendee dict does not have

\* an attendee dict with the keys that are not Absent
MkAttendee(u, l) ==
    IF u = Absent /\ l = Absent THEN [followers |-> <<>>]
    ELSE IF u = Absent THEN [post_link |-> l]
    ELSE IF l = Absent THEN [username |-> u]
    ELSE [username |-> u, post_link |-> l]

GoodLink == <<"x", ".", "c", "o", "m", "/", "u", "/", "s", "t", "a", "t", "u", "s", "/", "9", "8", "7">>
OtherLink == <<"t", "w", "i", "t", "t", "e", "r", ".", "c", "o", "m", "/", "s", "t", "a", "t", "u", "s", "/", "1", "2">>
NoStatusLink == <<"x", ".", "c", "o", "m", "/", "u">>
NoDigitsLink == <<"x", ".", "c", "o", "m", "/", "u", "/", "s", "t", "a", "t", "u", "s", "/">>

UserA == <<"@", "a">>

\* sequences over S of length at most n
RECURSIVE SeqsUpTo(_, _)
SeqsUpTo(S, n) ==
    IF n = 0 THEN {<<>>}
    ELSE LET shorter == SeqsUpTo(S, n - 1)
         IN  shorter \cup {Append(q, x) : q \in {t \in shorter : Len(t) = n - 1}, x \in S}

BatchEndpoints == {"retweet-posts", "like-posts", "post-comments", "post-quote-tweets"}
DiscoveryEndpoints == {"discover-events", "discover-attendees"}

\* TwitterActionRequest (app.py:128-130)
TwitterActionRequest(e, as, m) == [endpoint |-> e, attendees |-> as, message |-> m]

\* EventDiscoveryRequest / AttendeeDiscoveryRequest (app.py:116-126); the
\* filter fields are passed through untouched and left out
DiscoveryRequest(e, n) == [endpoint |-> e, max_results |-> n]

\* the attendees of the batch requests
Items ==
    {MkAttendee(UserA, l) : l \in {Absent, <<>>, NoStatusLink, GoodLink}}
        \cup {MkAttendee(Absent, OtherLink)}

BatchRequests ==
    {TwitterActionRequest(e, as, None) : e \in BatchEndpoints, as \in SeqsUpTo(Items, MaxBatch)}

\* requests that exercise the composition of the comment and quote texts
Names == SeqsUpTo({"@", "a"}, MaxName)
Messages == {None, <<>>, <<"h", "i">>}

TextRequests ==
    {TwitterActionRequest(e, <<MkAttendee(u, l)>>, m) :
        e \in {"post-comments", "post-quote-tweets"},
        u \in Names \cup {Absent}, l \in {GoodLink, NoDigitsLink}, m \in Messages}

LimitMin == 1
LimitMax == 100

MaxResultsInputs == ((LimitMin - MaxOver)..(LimitMax + MaxOver)) \cup {150}

DiscoveryRequests ==
    {DiscoveryRequest(e, n) : e \in DiscoveryEndpoints, n \in MaxResultsInputs}

Requests == BatchRequests \cup TextRequests \cup DiscoveryRequests

NoRequest == [endpoint |-> "none"]
NoResponse == [pending |-> TRUE]

(***************************************************************************)
(* The collaborators.                                                      *)
(***************************************************************************)
\* TwitterClient(): the constructor may raise (built = FALSE); a built client
\* answers is_operational() and has an api handle or None.  The fallback
\* class of app.py:40-54 is the built client with operational = FALSE and
\* api = FALSE.
Clients ==
    {[built |-> TRUE, operational |-> o, api |-> a] : o \in BOOLEAN, a \in BOOLEAN}
        \cup {[built |-> FALSE, operational |-> FALSE, api |-> FALSE]}

\* what one call of the client's action can do
RetweetOutcomes == {"true", "false", "raise"}      \* retweet_tweet, like_tweet -> bool
PostOutcomes == {"ok", "ok_noid", "error", "raise"} \* post_tweet -> {success, tweet_id?, error?}
StatusOutcomes == {"ok", "raise"}                  \* api.update_status -> tweet

(***************************************************************************)
(* Pieces of the handlers.                                                 *)
(***************************************************************************)
RetweetDelay == 2     \* time.sleep(2) of retweet_posts
LikeDelay == 2        \* time.sleep(2) of like_posts
CommentDelay == 3     \* time.sleep(3) of post_comments
QuoteDelay == 3       \* time.sleep(3) of post_quote_tweets

\* "Great post! " and the thumbs-up sign, one character
DefaultComment == <<"G", "r", "e", "a", "t", " ", "p", "o", "s", "t", "!", " ", "(thumbs up)">>
\* "Check this out! " and the eyes sign, one character
DefaultQuote == <<"C", "h", "e", "c", "k", " ", "t", "h", "i", "s", " ", "o", "u", "t", "!", " ", "(eyes)">>
\* two newlines, the repeat sign (one character), " Via @"
ViaAt == <<"\n", "\n", "(repeat)", " ", "V", "i", "a", " ", "@">>

\* mutant of clamp: the lower test written `< 0`
clamp_lower_zero(n) ==
    LET a == IF n > LimitMax THEN LimitMax ELSE n
    IN  IF a < 0 THEN LimitMin ELSE a

\* the clamp of request.max_results
clamp(n) ==
    LET a == IF n > LimitMax THEN LimitMax ELSE n
    IN  IF a < LimitMin THEN LimitMin ELSE a

\* mutant of not_operational: the pre-check tests the api handle
checks_api_only(c) == ~c.api

\* `if not twitter_client.is_operational()`
not_operational(c) == ~c.operational

\* mutant of no_oauth1: the quote handler gates on is_operational()
gates_on_operational(c) == ~c.operational

\* `if not twitter_client.api`
no_oauth1(c) == ~c.api

\* mutant of LinkMissing: `if post_link is None`
LinkIsNone(post_link) == post_link = None

\* `if not post_link`
LinkMissing(post_link) == Falsy(post_link)

\* request.message or default
custom_message(message, default) == IF Falsy(message) THEN default ELSE message

\* username.replace('@', '')
clean_username(username) == SelectSeq(username, LAMBDA c : c # "@")

\* mutant of comment_text: username.lstrip of one "@" in place of replace
comment_text_leading_only(username, message) ==
    <<"@">> \o (IF username # <<>> /\ Head(username) = "@" THEN Tail(username) ELSE username)
           \o <<" ">> \o custom_message(message, DefaultComment)

\* f"@{clean_username} {custom_message}"
comment_text(username, message) ==
    <<"@">> \o clean_username(username) \o <<" ">> \o custom_message(message, DefaultComment)

\* f"{custom_message}\n\n<repeat> Via @{clean_username}"
quote_text(username, message) ==
    custom_message(message, DefaultQuote) \o ViaAt \o clean_username(username)

\* a 'failed' entry of results
Failed(username, error) == [username |-> username, status |-> "failed", error |-> error]

\* What one pass through the try body of a for loop did: whether it left by
\* an exception, the entries it appended to results, what it added to the
\* success counter, the external calls it made, and the sleep it ran.
Effect(raised, appended, inc, call, sleep) ==
    [raised |-> raised, appended |-> appended, inc |-> inc, call |-> call, sleep |-> sleep]

\* the two `continue` branches shared by the four loops
Skips(post_link) == LinkMissing(post_link) \/ Falsy(extract_tweet_id(post_link))

Skipped(username, post_link) ==
    IF LinkMissing(post_link)
    THEN Effect(FALSE, <<Failed(username, "No post link available")>>, 0, <<>>, 0)
    ELSE Effect(FALSE, <<Failed(username, "Could not extract tweet ID from link")>>, 0, <<>>, 0)

\* mutant of sleep_after_result: the sleep moved into the success branch
sleep_on_success_only(result, delay) == IF result THEN delay ELSE 0

\* the sleep at the end of the try body of retweet_posts and like_posts: it
\* follows the if/else on the action's result
sleep_after_result(result, delay) == delay

\* try body of retweet_posts and like_posts for attendee k
simple_try(fn, done, failure, delay, attendee, k) ==
    LET username == DictGet(attendee, "username", <<>>)
        post_link == DictGet(attendee, "post_link", <<>>)
        tweet_id == extract_tweet_id(post_link)
        call(o) == <<[fn |-> fn, item |-> k, tweet_id |-> tweet_id, outcome |-> o]>>
        effect(o) ==
            CASE o = "raise" -> Effect(TRUE, <<>>, 0, call(o), 0)
              [] o = "true" ->
                    Effect(FALSE,
                           <<[username |-> username, status |-> done, tweet_id |-> tweet_id,
                              message |-> <<"Successfully", done, "post from", username>>]>>,
                           1, call(o), sleep_after_result(TRUE, delay))
              [] o = "false" ->
                    Effect(FALSE, <<Failed(username, failure)>>, 0, call(o),
                           sleep_after_result(FALSE, delay))
    IN  IF Skips(post_link) THEN {Skipped(username, post_link)}
        ELSE {effect(o) : o \in RetweetOutcomes}

retweet_try(attendee, k) ==
    simple_try("retweet_tweet", "retweeted", "Retweet failed", RetweetDelay, attendee, k)

like_try(attendee, k) ==
    simple_try("like_tweet", "liked", "Like failed", LikeDelay, attendee, k)

\* try body of post_comments for attendee k
comment_try(attendee, message, k) ==
    LET username == DictGet(attendee, "username", <<>>)
        post_link == DictGet(attendee, "post_link", <<>>)
        tweet_id == extract_tweet_id(post_link)
        text == comment_text(username, message)
        call(o) == <<[fn |-> "post_tweet", item |-> k, text |-> text,
                      reply_to |-> tweet_id, outcome |-> o]>>
        effect(o) ==
            CASE o = "raise" -> Effect(TRUE, <<>>, 0, call(o), 0)
              \* result['success'] is true, the counter is incremented, and
              \* result['tweet_id'] raises KeyError
              [] o = "ok_noid" -> Effect(TRUE, <<>>, 1, call(o), 0)
              [] o = "ok" ->
                    Effect(FALSE,
                           <<[username |-> username, status |-> "commented",
                              tweet_id |-> tweet_id, comment_id |-> "new id",
                              comment_text |-> text,
                              message |-> <<"Successfully", "commented", "post from", username>>]>>,
                           1, call(o), sleep_after_result(TRUE, CommentDelay))
              [] o = "error" ->
                    Effect(FALSE, <<Failed(username, "error of the result")>>, 0, call(o),
                           sleep_after_result(FALSE, CommentDelay))
    IN  IF Skips(post_link) THEN {Skipped(username, post_link)}
        ELSE {effect(o) : o \in PostOutcomes}

\* try body of post_quote_tweets for attendee k: the sleep is in the path of
\* the returned tweet only
quote_try(attendee, message, k) ==
    LET username == DictGet(attendee, "username", <<>>)
        post_link == DictGet(attendee, "post_link", <<>>)
        tweet_id == extract_tweet_id(post_link)
        text == quote_text(username, message)
        call(o) == <<[fn |-> "update_status", item |-> k, text |-> text, outcome |-> o]>>
        effect(o) ==
            CASE o = "raise" -> Effect(TRUE, <<>>, 0, call(o), 0)
              [] o = "ok" ->
                    Effect(FALSE,
                           <<[username |-> username, status |-> "quoted",
                              original_tweet_id |-> tweet_id, quote_tweet_id |-> "new id",
                              quote_text |-> text,
                              message |-> <<"Successfully", "quoted", "post from", username>>]>>,
                           1, call(o), QuoteDelay)
    IN  IF Skips(post_link) THEN {Skipped(username, post_link)}
        ELSE {effect(o) : o \in StatusOutcomes}

\* mutant of inner_except: no try/except inside the for loop
inner_except_missing(username, t) == t

\* the `except Exception as e` clause inside the for loops: the exception
\* ends there and a 'failed' entry is appended
inner_except(username, t) ==
    IF t.raised
    THEN Effect(FALSE, Append(t.appended, Failed(username, "str(e)")), t.inc, t.call, t.sleep)
    ELSE t

\* the `except Exception as e` clause around a whole batch handler
outer_except == [success |-> FALSE, error |-> "str(e)"]

\* mutant of results_append: results.insert(0, ...)
results_prepend(rs, new) == new \o rs

\* results.append(...)
results_append(rs, new) == rs \o new

\* mutant of failed_count: an off-by-one
failed_count_off_by_one(attendees, n) == Len(attendees) - n - 1

\* "failed_count": len(request.attendees) - successful
failed_count(attendees, n) == Len(attendees) - n

\* the dict a batch handler returns after its loop
Report(endpoint, attendees, n, rs) ==
    CASE endpoint = "retweet-posts" ->
            [success |-> TRUE, retweeted_count |-> n,
             failed_count |-> failed_count(attendees, n), results |-> rs]
      [] endpoint = "like-posts" ->
            [success |-> TRUE, liked_count |-> n,
             failed_count |-> failed_count(attendees, n), results |-> rs]
      [] endpoint = "post-comments" ->
            [success |-> TRUE, commented_count |-> n,
             failed_count |-> failed_count(attendees, n), results |-> rs]
      [] endpoint = "post-quote-tweets" ->
            [success |-> TRUE, quoted_count |-> n,
             failed_count |-> failed_count(attendees, n),
             total_attempted |-> Len(attendees), results |-> rs]

(***************************************************************************)
(* The event loop and the handlers.                                        *)
(***************************************************************************)
Init ==
    /\ inbox = <<>>
    /\ cur = NoRequest
    /\ client = [built |-> FALSE, operational |-> FALSE, api |-> FALSE]
    /\ pc = "idle"
    /\ idx = 1
    /\ results = <<>>
    /\ successful = 0
    /\ calls = <<>>
    /\ delays = <<>>
    /\ timer = 0
    /\ response = NoResponse

\* the event loop thread is free: no handler is between its first line and
\* the sending of its response
LoopFree == pc = "idle"

\* a request reaches the server while no handler runs
Arrive(req) ==
    /\ LoopFree
    /\ inbox = <<>>
    /\ inbox' = <<req>>
    /\ UNCHANGED <<cur, client, pc, idx, results, successful, calls, delays, timer, response>>

\* a request reaches the server at any moment, a running handler or not
ArriveAnytime(req) ==
    /\ Len(inbox) < MaxInbox
    /\ inbox' = Append(inbox, req)
    /\ UNCHANGED <<cur, client, pc, idx, results, successful, calls, delays, timer, response>>

\* the event loop starts the handler of the oldest waiting request
Dispatch(endpoint) ==
    /\ LoopFree
    /\ inbox # <<>>
    /\ Head(inbox).endpoint = endpoint
    /\ cur' = Head(inbox)
    /\ inbox' = Tail(inbox)
    /\ delays' = <<>>
    /\ timer' = 0
    /\ idx' = 1
    /\ results' = <<>>
    /\ successful' = 0

\* a batch handler from its first line to the for loop
Enter(endpoint, c, blocked, error) ==
    /\ Dispatch(endpoint)
    /\ client' = c
    /\ calls' = <<>>
    /\ IF ~c.built
       THEN response' = outer_except /\ pc' = "done"
       ELSE IF blocked
       THEN response' = [success |-> FALSE, error |-> error] /\ pc' = "done"
       ELSE response' = NoResponse /\ pc' = "loop"

\* one pass of a batch handler's for loop, with the effect t of its try body
Pass(endpoint, t) ==
    /\ results' = results_append(results, t.appended)
    /\ successful' = successful + t.inc
    /\ calls' = calls \o t.call
    /\ delays' = Append(delays, t.sleep)
    /\ idx' = idx + 1
    /\ IF t.raised
       THEN /\ response' = outer_except
            /\ pc' = "done"
            /\ timer' = 0
       ELSE /\ response' = response
            /\ timer' = t.sleep
            /\ pc' = IF t.sleep > 0 THEN "sleep" ELSE "loop"
    /\ UNCHANGED <<inbox, cur, client>>

InLoop(endpoint) ==
    /\ pc = "loop"
    /\ cur.endpoint = endpoint
    /\ idx <= Len(cur.attendees)

\* the return after a batch handler's for loop
Return(endpoint) ==
    /\ pc = "loop"
    /\ cur.endpoint = endpoint
    /\ idx > Len(cur.attendees)
    /\ response' = Report(endpoint, cur.attendees, successful, results)
    /\ pc' = "done"
    /\ UNCHANGED <<inbox, cur, client, idx, results, successful, calls, delays, timer>>

Username(k) == DictGet(cur.attendees[k], "username", <<>>)

retweet_posts ==
    \E c \in Clients :
        Enter("retweet-posts", c, not_operational(c), "Twitter client not operational")

retweet_posts_loop ==
    /\ InLoop("retweet-posts")
    /\ \E t \in retweet_try(cur.attendees[idx], idx) :
           Pass("retweet-posts", inner_except(Username(idx), t))

retweet_posts_return == Return("retweet-posts")

like_posts ==
    \E c \in Clients :
        Enter("like-posts", c, not_operational(c), "Twitter client not operational")

like_posts_loop ==
    /\ InLoop("like-posts")
    /\ \E t \in like_try(cur.attendees[idx], idx) :
           Pass("like-posts", inner_except(Username(idx), t))

like_posts_return == Return("like-posts")

post_comments ==
    \E c \in Clients :
        Enter("post-comments", c, not_operational(c), "Twitter client not operational")

post_comments_loop ==
    /\ InLoop("post-comments")
    /\ \E t \in comment_try(cur.attendees[idx], cur.message, idx) :
           Pass("post-comments", inner_except(Username(idx), t))

post_comments_return == Return("post-comments")

post_quote_tweets ==
    \E c \in Clients :
        Enter("post-quote-tweets", c, no_oauth1(c),
              "Twitter OAuth 1.1 not configured for quote tweets")

post_quote_tweets_loop ==
    /\ InLoop("post-quote-tweets")
    /\ \E t \in quote_try(cur.attendees[idx], cur.message, idx) :
           Pass("post-quote-tweets", inner_except(Username(idx), t))

post_quote_tweets_return == Return("post-quote-tweets")

\* time.sleep(n) running: one time unit passes on the thread that called it
Tick ==
    /\ pc = "sleep"
    /\ timer' = timer - 1
    /\ pc' = IF timer = 1 THEN "loop" ELSE "sleep"
    /\ UNCHANGED <<inbox, cur, client, idx, results, successful, calls, delays, response>>

\* The handler returned: the response leaves the server, the handler's locals
\* and its client are dropped, and the thread goes back to the event loop.
Reply ==
    /\ pc = "done"
    /\ pc' = "idle"
    /\ cur' = NoRequest
    /\ client' = [built |-> FALSE, operational |-> FALSE, api |-> FALSE]
    /\ idx' = 1
    /\ results' = <<>>
    /\ successful' = 0
    /\ calls' = <<>>
    /\ delays' = <<>>
    /\ timer' = 0
    /\ response' = NoResponse
    /\ UNCHANGED inbox

\* the dict a discovery handler returns for n records found
DiscoveryResponse(endpoint, n, limit) ==
    IF endpoint = "discover-events"
    THEN [success |-> TRUE, events |-> [i \in 1..n |-> "event.__dict__"],
          total_events |-> n, requested_limit |-> limit]
    ELSE [success |-> TRUE, attendees |-> [i \in 1..n |-> "attendee.__dict__"],
          total_attendees |-> n, requested_limit |-> limit]

\* a discovery handler, whole: the clamp, the engine call, and the response
\* or the HTTPException of the except clause
Discover(endpoint, fn) ==
    /\ Dispatch(endpoint)
    /\ LET limit == clamp(Head(inbox).max_results)
       IN  \/ /\ calls' = <<[fn |-> fn, max_results |-> limit, outcome |-> "raise"]>>
              /\ response' = [status_code |-> 500, detail |-> "str(e)"]
           \/ \E n \in 0..MaxFound :
                /\ calls' = <<[fn |-> fn, max_results |-> limit, outcome |-> "ok"]>>
                /\ response' = DiscoveryResponse(endpoint, n, limit)
    /\ pc' = "done"
    /\ UNCHANGED client

discover_events == Discover("discover-events", "event_engine.discover_events")

discover_attendees == Discover("discover-attendees", "attendee_engine.discover_attendees")

Handlers ==
    \/ retweet_posts \/ retweet_posts_loop \/ retweet_posts_return
    \/ like_posts \/ like_posts_loop \/ like_posts_return
    \/ post_comments \/ post_comments_loop \/ post_comments_return
    \/ post_quote_tweets \/ post_quote_tweets_loop \/ post_quote_tweets_return
    \/ discover_events \/ discover_attendees
    \/ Tick
    \/ Reply

Receive == \E req \in Requests : Arrive(req)

Next == Receive \/ Handlers

Spec == Init /\ [][Next]_vars

(***************************************************************************)
(* Concurrent arrivals: requests reach the server while a handler runs.    *)
(***************************************************************************)
MaxLoopBatch == 2    \* longest attendees list of the concurrent requests

LoopRequests ==
    {TwitterActionRequest(e, as, None) :
        e \in BatchEndpoints, as \in SeqsUpTo({MkAttendee(UserA, GoodLink)}, MaxLoopBatch)}
        \cup {DiscoveryRequest(e, 42) : e \in DiscoveryEndpoints}

ReceiveAnytime == \E req \in LoopRequests : ArriveAnytime(req)

NextLoop == ReceiveAnytime \/ Handlers

SpecLoop == Init /\ [][NextLoop]_vars

\* the event loop starts the handler of the oldest waiting request
Serve ==
    \/ retweet_posts \/ like_posts \/ post_comments \/ post_quote_tweets
    \/ discover_events \/ discover_attendees

(***************************************************************************)
(* Properties.                                                             *)
(***************************************************************************)
IsBatch == cur.endpoint \in BatchEndpoints

\* the current handler returned the report of a batch
Reported == pc = "done" /\ IsBatch /\ "results" \in DOMAIN response

LinkOf(k) == DictGet(cur.attendees[k], "post_link", <<>>)

Called(k) == \E i \in 1..Len(calls) : calls[i].item = k

\* the success count of a batch report, under the key of its endpoint
SuccessCount ==
    CASE cur.endpoint = "retweet-posts" -> response.retweeted_count
      [] cur.endpoint = "like-posts" -> response.liked_count
      [] cur.endpoint = "post-comments" -> response.commented_count
      [] cur.endpoint = "post-quote-tweets" -> response.quoted_count

SucceededStatus ==
    CASE cur.endpoint = "retweet-posts" -> "retweeted"
      [] cur.endpoint = "like-posts" -> "liked"
      [] cur.endpoint = "post-comments" -> "commented"
      [] cur.endpoint = "post-quote-tweets" -> "quoted"

\* the pacing delay of the current batch
Pacing == IF cur.endpoint \in {"retweet-posts", "like-posts"} THEN 2 ELSE 3

\* C1: per-item isolation.  When a batch handler has returned and the external
\* action call of the item at position k raised, the response is a report
\* with success = true, entry k of its results is 'failed', every attendee
\* has its own entry, and the action was called for every later attendee
\* whose post_link is non-empty and yields an identifier.
C1_PerItemIsolation ==
    (pc = "done" /\ IsBatch) =>
        \A i \in 1..Len(calls) :
            calls[i].outcome = "raise" =>
                /\ "results" \in DOMAIN response
                /\ response.success = TRUE
                /\ Len(response.results) = Len(cur.attendees)
                /\ response.results[calls[i].item].status = "failed"
                /\ \A j \in (calls[i].item + 1)..Len(cur.attendees) :
                       (LinkOf(j) # <<>> /\ extract_tweet_id(LinkOf(j)) # None) => Called(j)

\* C1 witness: a returned batch of three whose second action call raised and
\* whose first and third attendees were acted on and reported.
C1_Witness ==
    /\ Reported
    /\ Len(cur.attendees) = 3
    /\ Len(calls) = 3
    /\ calls[2].item = 2 /\ calls[2].outcome = "raise"
    /\ calls[3].item = 3
    /\ response.results[1].status # "failed"
    /\ response.results[3].status # "failed"

\* C2: a batch report has one entry per attendee, in input order: entry k
\* carries the username of attendee k and, when it is a success, the
\* identifier extracted from attendee k's link.
C2_ResultsMatchInput ==
    Reported =>
        /\ Len(response.results) = Len(cur.attendees)
        /\ \A k \in 1..Len(response.results) :
               LET r == response.results[k]
               IN  /\ r.username = DictGet(cur.attendees[k], "username", <<>>)
                   /\ "tweet_id" \in DOMAIN r => r.tweet_id = extract_tweet_id(LinkOf(k))
                   /\ "original_tweet_id" \in DOMAIN r =>
                          r.original_tweet_id = extract_tweet_id(LinkOf(k))

\* C2 witness: a report of three entries over attendees with different
\* usernames and links, a failure first and successes after it.
C2_Witness ==
    /\ Reported
    /\ Len(response.results) = 3
    /\ response.results[1].status = "failed"
    /\ response.results[2].status = "commented"
    /\ response.results[3].status = "commented"
    /\ response.results[2].username # response.results[3].username
    /\ response.results[2].tweet_id # response.results[3].tweet_id

\* C3: in a batch report the success count plus failed_count is the number
\* of attendees of the request.
C3_CountsSumToInput ==
    Reported => SuccessCount + response.failed_count = Len(cur.attendees)

\* C3 witness: a report with successes and failures.
C3_Witness ==
    /\ Reported
    /\ SuccessCount >= 1
    /\ response.failed_count >= 2

\* C4: with a client that is not operational, retweet-posts, like-posts and
\* post-comments make no action call and record no per-item outcome, and
\* return the bare top-level failure.
C4_NotOperationalShortCircuits ==
    (/\ cur.endpoint \in {"retweet-posts", "like-posts", "post-comments"}
     /\ client.built
     /\ ~client.operational) =>
        /\ calls = <<>>
        /\ results = <<>>
        /\ pc = "done"
        /\ response = [success |-> FALSE, error |-> "Twitter client not operational"]

\* C4 witness: post-comments answered for a non-operational client that has
\* the api handle, on a batch whose first attendee could have been acted on.
C4_Witness ==
    /\ pc = "done"
    /\ cur.endpoint = "post-comments"
    /\ client.built /\ ~client.operational /\ client.api
    /\ Len(cur.attendees) >= 1
    /\ extract_tweet_id(LinkOf(1)) # None
    /\ response.success = FALSE

\* C5: with a client whose api handle is absent, post-quote-tweets makes no
\* post call and records no per-item outcome, and returns the top-level
\* 'OAuth 1.1 not configured' failure, whatever is_operational() says.
C5_QuoteGatesOnLegacyAuth ==
    (cur.endpoint = "post-quote-tweets" /\ client.built /\ ~client.api) =>
        /\ calls = <<>>
        /\ results = <<>>
        /\ pc = "done"
        /\ response = [success |-> FALSE,
                       error |-> "Twitter OAuth 1.1 not configured for quote tweets"]

\* C5 witness: post-quote-tweets answered for an operational client without
\* the api handle, on a batch whose first attendee could have been quoted.
C5_Witness ==
    /\ pc = "done"
    /\ cur.endpoint = "post-quote-tweets"
    /\ client.built /\ client.operational /\ ~client.api
    /\ Len(cur.attendees) >= 1
    /\ extract_tweet_id(LinkOf(1)) # None
    /\ response.success = FALSE

\* C6: while a handler is in its pacing delay and another request waits, the
\* event loop can start that request's handler.
C6_ServedDuringDelay ==
    (pc = "sleep" /\ inbox # <<>>) => ENABLED Serve

\* C7: an attendee whose post_link is empty or absent gets the 'failed' entry
\* with 'No post link available', no action call and no pacing delay.
C7_MissingLinkFailsWithoutCall ==
    IsBatch =>
        \A k \in 1..Len(results) :
            LinkOf(k) = <<>> =>
                /\ results[k].status = "failed"
                /\ results[k].error = "No post link available"
                /\ ~Called(k)
                /\ Len(delays) >= k /\ delays[k] = 0

\* C7 witness: a quote batch whose first attendee was quoted and whose second
\* attendee, a dict without the post_link key, has been processed.
C7_Witness ==
    /\ cur.endpoint = "post-quote-tweets"
    /\ Len(results) >= 2
    /\ results[1].status = "quoted"
    /\ "post_link" \notin DOMAIN cur.attendees[2]
    /\ results[2].status = "failed"

\* C8: the limit a discovery handler passes to its engine, and echoes as
\* requested_limit, is max_results brought into [1, 100]: 100 above 100, 1
\* below 1, unchanged in between.
C8_LimitClamped ==
    (pc = "done" /\ cur.endpoint \in DiscoveryEndpoints) =>
        LET m == cur.max_results
            want == IF m > 100 THEN 100 ELSE IF m < 1 THEN 1 ELSE m
        IN  /\ Len(calls) = 1
            /\ calls[1].max_results = want
            /\ "requested_limit" \in DOMAIN response => response.requested_limit = want

\* C8 witness: discover-events answered for max_results = 0 with the limit 1.
C8_Witness ==
    /\ pc = "done"
    /\ cur.endpoint = "discover-events"
    /\ cur.max_results = 0
    /\ "requested_limit" \in DOMAIN response
    /\ response.requested_limit = 1

\* the string s without its leading "@", if it has one
StripLeadingAt(s) == IF s # <<>> /\ Head(s) = "@" THEN Tail(s) ELSE s

\* the string s without any "@"
RECURSIVE WithoutAt(_)
WithoutAt(s) ==
    IF s = <<>> THEN <<>>
    ELSE IF Head(s) = "@" THEN WithoutAt(Tail(s))
    ELSE <<Head(s)>> \o WithoutAt(Tail(s))

\* the message part of a comment: the override when it is a non-empty string
CommentMessage == IF cur.message = None \/ cur.message = <<>> THEN DefaultComment ELSE cur.message

\* C9 as stated: the text post-comments sends is "@", the username without
\* its leading "@" only, a space, and the message override or the default.
C9_LeadingAtStripped ==
    cur.endpoint = "post-comments" =>
        \A i \in 1..Len(calls) :
            calls[i].text = <<"@">> \o StripLeadingAt(Username(calls[i].item)) \o <<" ">>
                                \o CommentMessage

\* C9 amended: the text post-comments sends is "@", the username with every
\* "@" removed, a space, and the message override when it is a non-empty
\* string, else the default.
C9_EveryAtRemoved ==
    cur.endpoint = "post-comments" =>
        \A i \in 1..Len(calls) :
            calls[i].text = <<"@">> \o WithoutAt(Username(calls[i].item)) \o <<" ">>
                                \o CommentMessage

\* C9 witness: a comment sent for the username "a@" with no message override:
\* the text is "@a Great post! " and the thumbs-up sign.
C9_Witness ==
    /\ cur.endpoint = "post-comments"
    /\ cur.message = None
    /\ Len(calls) = 1
    /\ Username(1) = <<"a", "@">>
    /\ calls[1].text = <<"@", "a", " ">> \o DefaultComment

\* C10 as stated: the pacing delay is charged after an attendee exactly when
\* its entry is the succeeded variant; a 'failed' entry charges none.
C10_DelayIffSucceeded ==
    IsBatch =>
        /\ Len(delays) = Len(results)
        /\ \A k \in 1..Len(results) :
               delays[k] = (IF results[k].status = SucceededStatus THEN Pacing ELSE 0)

\* C10 amended: the pacing delay is charged after an attendee exactly when the
\* action was called for it and the try body ran to its end without an
\* exception, be the action's result a success or an explicit failure; no
\* other attendee charges a delay.
C10_DelayIffActionReturned ==
    IsBatch =>
        /\ Len(delays) = Len(results)
        /\ \A k \in 1..Len(results) :
               LET returned == \E i \in 1..Len(calls) :
                                   /\ calls[i].item = k
                                   /\ calls[i].outcome \in {"true", "false", "ok", "error"}
               IN  delays[k] = (IF returned THEN Pacing ELSE 0)
        /\ pc = "sleep" => (timer \in 1..Pacing /\ delays[Len(delays)] = Pacing)
        /\ pc # "sleep" => timer = 0

\* C10 witness: a retweet that returned false: the entry is 'failed' and the
\* handler is in its delay of 2.
C10_Witness ==
    /\ cur.endpoint = "retweet-posts"
    /\ pc = "sleep" /\ timer = 2
    /\ Len(results) = 1
    /\ results[1].status = "failed"
    /\ calls[1].outcome = "false"
    /\ delays[1] = 2

\* the entries of a batch report whose status is st
EntriesWith(st) == {k \in 1..Len(response.results) : response.results[k].status = st}

\* C11: in a batch report the success count is the number of entries of
\* results with the succeeded status of the endpoint, and failed_count is the
\* number of entries with status 'failed'.
C11_CountsMatchEntries ==
    Reported =>
        /\ SuccessCount = Cardinality(EntriesWith(SucceededStatus))
        /\ response.failed_count = Cardinality(EntriesWith("failed"))

====
